---- MODULE Spec2Model ----
(***************************************************************************)
(* Model of the in-memory Book Store Service of src/task33.js: the         *)
(* collection `books`, the helper generateId and the five route handlers.  *)
(* JavaScript strings are sequences of one-character strings, so that      *)
(* parseInt and Number.prototype.toString are computed digit by digit.     *)
(***************************************************************************)
EXTENDS Integers, Sequences, FiniteSets, TLC

VARIABLES books,      \* the array `books`
          req,        \* the request handled last
          res,        \* the response sent to it
          prev,       \* history: `books` when that request arrived
          e2e,        \* history: how far the request history follows E2ERequests
          assigned,   \* history: every id a book ever carried
          tombstones, \* history: ids deleted since the last successful create
          maxGone     \* history: the largest-id book was deleted since then

vars == <<books, req, res, prev, e2e, assigned, tombstones, maxGone>>

-----------------------------------------------------------------------------
(* Bounds *)

MaxId == 4   \* a create is not issued when the id it would assign exceeds this

-----------------------------------------------------------------------------
(* JavaScript values *)

JStr(s)  == [k |-> "str",   s |-> s,    n |-> 0]
JNum(n)  == [k |-> "num",   s |-> <<>>, n |-> n]
JNull    == [k |-> "null",  s |-> <<>>, n |-> 0]
JUndef   == [k |-> "undef", s |-> <<>>, n |-> 0]
NaN      == [k |-> "nan",   s |-> <<>>, n |-> 0]

\* !v is false
Truthy(v) ==
    CASE v.k = "str" -> v.s # <<>>
      [] v.k = "num" -> v.n # 0
      [] OTHER       -> FALSE

EmptyObj == [f \in {} |-> JUndef]

\* o.f : undefined when o has no own property f
Prop(o, f) == IF f \in DOMAIN o THEN o[f] ELSE JUndef

\* { ...a, ...b }
Spread(a, b) ==
    [f \in DOMAIN a \cup DOMAIN b |-> IF f \in DOMAIN b THEN b[f] ELSE a[f]]

Digits == <<"0", "1", "2", "3", "4", "5", "6", "7", "8", "9">>

LowerHex == Digits \o <<"a", "b", "c", "d", "e", "f">>
UpperHex == Digits \o <<"A", "B", "C", "D", "E", "F">>

\* c is a digit in the given radix (10 or 16)
IsDigit(c, radix) == \E d \in 1..radix : LowerHex[d] = c \/ UpperHex[d] = c

DigitVal(c, radix) ==
    (CHOOSE d \in 1..radix : LowerHex[d] = c \/ UpperHex[d] = c) - 1

WhiteSpace == {" ", "\t", "\n", "\r"}

RECURSIVE NatToString(_)
NatToString(n) ==
    IF n < 10 THEN <<Digits[n + 1]>>
    ELSE Append(NatToString(n \div 10), Digits[(n % 10) + 1])

\* Number.prototype.toString
toString(v) ==
    CASE v.k = "nan" -> <<"N", "a", "N">>
      [] v.k = "num" -> IF v.n < 0 THEN <<"-">> \o NatToString(-v.n)
                        ELSE NatToString(v.n)

\* ToString of a value, as parseInt applies it to its argument
ToStr(v) ==
    CASE v.k = "str"   -> v.s
      [] v.k = "num"   -> toString(v)
      [] v.k = "nan"   -> toString(v)
      [] v.k = "null"  -> <<"n", "u", "l", "l">>
      [] v.k = "undef" -> <<"u", "n", "d", "e", "f", "i", "n", "e", "d">>

RECURSIVE TrimStart(_)
TrimStart(s) ==
    IF s # <<>> /\ Head(s) \in WhiteSpace THEN TrimStart(Tail(s)) ELSE s

RECURSIVE ParseDigits(_, _, _, _)
ParseDigits(s, radix, acc, seen) ==
    IF s # <<>> /\ IsDigit(Head(s), radix)
    THEN ParseDigits(Tail(s), radix, acc * radix + DigitVal(Head(s), radix), TRUE)
    ELSE IF seen THEN JNum(acc) ELSE NaN

\* parseInt(v) with no radix: leading white space, a sign, then the longest run
\* of digits, decimal or, after a 0x prefix, hexadecimal; NaN when there is none
parseInt(v) ==
    LET s    == TrimStart(ToStr(v))
        sign == s # <<>> /\ Head(s) \in {"+", "-"}
        neg  == s # <<>> /\ Head(s) = "-"
        t    == IF sign THEN Tail(s) ELSE s
        hex  == Len(t) >= 2 /\ t[1] = "0" /\ t[2] \in {"x", "X"}
        r    == IF hex THEN ParseDigits(Tail(Tail(t)), 16, 0, FALSE)
                ELSE ParseDigits(t, 10, 0, FALSE)
    IN  IF r.k = "num" /\ neg THEN JNum(-r.n) ELSE r

\* Math.max(...ns) for a non-empty ns: NaN as soon as one argument is NaN
MathMax(ns) ==
    IF \E i \in 1..Len(ns) : ns[i].k = "nan" THEN NaN
    ELSE JNum(CHOOSE m \in {ns[i].n : i \in 1..Len(ns)} :
                  \A i \in 1..Len(ns) : ns[i].n <= m)

\* x + 1 on numbers
PlusOne(v) == IF v.k = "nan" THEN NaN ELSE JNum(v.n + 1)

-----------------------------------------------------------------------------
(* The store *)

SeedBooks ==
    << [id |-> JStr(<<"1">>), title |-> JStr(<<"L", "o", "t", "R">>),
        author |-> JStr(<<"T", "o", "l", "k", "i", "e", "n">>),
        publishedYear |-> JNum(1954)],
       [id |-> JStr(<<"2">>), title |-> JStr(<<"P", "&", "P">>),
        author |-> JStr(<<"A", "u", "s", "t", "e", "n">>),
        publishedYear |-> JNum(1813)],
       [id |-> JStr(<<"3">>), title |-> JStr(<<"1", "9", "8", "4">>),
        author |-> JStr(<<"O", "r", "w", "e", "l", "l">>),
        publishedYear |-> JNum(1949)] >>

\* Variant: ids counted from the collection's length
generateIdByLength(bks) == JStr(NatToString(Len(bks) + 1))

\* Variant: the largest id itself, the + 1 forgotten
generateIdMax(bks) ==
    IF Len(bks) > 0
    THEN JStr(toString(MathMax(
             [i \in 1..Len(bks) |-> parseInt(Prop(bks[i], "id"))])))
    ELSE JStr(<<"1">>)

\* Variant: a counter that never goes back, one more than the ids ever used
generateIdCounter(bks) == JStr(NatToString(Cardinality(assigned) + 1))

generateId(bks) ==
    IF Len(bks) > 0
    THEN JStr(toString(PlusOne(MathMax(
             [i \in 1..Len(bks) |-> parseInt(Prop(bks[i], "id"))]))))
    ELSE JStr(<<"1">>)

\* Variant: ids compared as numbers
IdIsLoose(b, id) == parseInt(Prop(b, "id")) = parseInt(JStr(id))

\* b.id === id, id a string
IdIs(b, id) == Prop(b, "id") = JStr(id)

\* books.findIndex(b => b.id === id), 1-based; 0 stands for -1
findIndex(bks, id) ==
    IF \E i \in 1..Len(bks) : IdIs(bks[i], id)
    THEN CHOOSE i \in 1..Len(bks) :
             IdIs(bks[i], id) /\ \A j \in 1..(i - 1) : ~IdIs(bks[j], id)
    ELSE 0

\* Variant: the predicate inverted, only the matching book kept
RECURSIVE filterKeep(_, _)
filterKeep(bks, id) ==
    IF bks = <<>> THEN <<>>
    ELSE IF IdIs(Head(bks), id) THEN <<Head(bks)>> \o filterKeep(Tail(bks), id)
         ELSE filterKeep(Tail(bks), id)

\* books.filter(b => b.id !== id)
RECURSIVE filter(_, _)
filter(bks, id) ==
    IF bks = <<>> THEN <<>>
    ELSE IF IdIs(Head(bks), id) THEN filter(Tail(bks), id)
         ELSE <<Head(bks)>> \o filter(Tail(bks), id)

\* books.find(b => b.id === id): no book, or the first match
find(bks, id) ==
    LET i == findIndex(bks, id) IN IF i = 0 THEN <<>> ELSE <<bks[i]>>

\* Variant: the fields checked for presence, not for truthiness
InvalidIfAbsent(body) ==
    \/ "title" \notin DOMAIN body
    \/ "author" \notin DOMAIN body
    \/ "publishedYear" \notin DOMAIN body

\* !newBook.title || !newBook.author || !newBook.publishedYear
Invalid(body) ==
    \/ ~Truthy(Prop(body, "title"))
    \/ ~Truthy(Prop(body, "author"))
    \/ ~Truthy(Prop(body, "publishedYear"))

\* Variant: an id is generated only when the body brings none
StoredKeepId(body, bks) ==
    IF "id" \in DOMAIN body THEN body ELSE Spread(body, [id |-> generateId(bks)])

\* newBook.id = generateId()
Stored(body, bks) == Spread(body, [id |-> generateId(bks)])

\* Variant: the new book put first
unshift(bks, book) == <<book>> \o bks

\* books.push(newBook)
push(bks, book) == Append(bks, book)

\* Variant: the body replaces the stored book instead of being merged into it
MergedReplace(book, body, id) == Spread(body, [id |-> JStr(id)])

\* Variant: the path id spread first, so that the body's id wins
MergedBodyWins(book, body, id) == Spread(Spread(book, [id |-> JStr(id)]), body)

\* { ...books[bookIndex], ...updatedBookData, id: id }
Merged(book, body, id) == Spread(Spread(book, body), [id |-> JStr(id)])

-----------------------------------------------------------------------------
(* Requests and responses *)

Request(op, id, body) == [op |-> op, id |-> id, body |-> body]

\* res.status(status).json(...): an array, one object, a message, or nothing
Response(status, kind, body, message) ==
    [status |-> status, kind |-> kind, body |-> body, message |-> message]

NotFound == Response(404, "message", <<>>, "Book not found")

BadRequest ==
    Response(400, "message", <<>>,
             "Title, author, and publishedYear are required")

Dune    == JStr(<<"D", "u", "n", "e">>)
Herbert == JStr(<<"H", "e", "r", "b", "e", "r", "t">>)
Abc     == <<"a", "b", "c">>

DuneBody == [title |-> Dune, author |-> Herbert, publishedYear |-> JNum(1965)]

\* Bodies sent to POST /books: three that pass the check of the required
\* fields (two of them carry an id of their own), four that do not
PostBodies ==
    { DuneBody,
      Spread(DuneBody, [id |-> JStr(<<"2">>)]),
      Spread(DuneBody, [id |-> JStr(Abc)]),
      [author |-> Herbert, publishedYear |-> JNum(1965)],
      [title |-> JStr(<<>>), author |-> Herbert, publishedYear |-> JNum(1965)],
      [title |-> Dune, author |-> JNull, publishedYear |-> JNum(1965)],
      [title |-> Dune, author |-> Herbert, publishedYear |-> JNum(0)] }

Year1966Body == [publishedYear |-> JNum(1966)]

\* Bodies sent to PUT /books/:id
PutBodies ==
    { Year1966Body,
      [id |-> JStr(Abc)],
      [id |-> JStr(<<"1">>)] }

\* Values of the :id route parameter
PathIds ==
    {NatToString(n) : n \in 1..MaxId} \cup {<<"0", "1">>}

E2ERequests ==
    << Request("create", <<>>, DuneBody),
       Request("get", <<"4">>, EmptyObj),
       Request("update", <<"4">>, Year1966Body),
       Request("delete", <<"2">>, EmptyObj),
       Request("get", <<"2">>, EmptyObj) >>

\* The largest numeric id of bks belongs to the book whose id is `id`
IsLargest(bks, id) ==
    \E i \in 1..Len(bks) :
        /\ IdIs(bks[i], id)
        /\ \A j \in 1..Len(bks) :
               parseInt(Prop(bks[j], "id")).n <= parseInt(Prop(bks[i], "id")).n

\* The history variables, once books', req' and res' are set
Track ==
    /\ prev' = books
    /\ e2e' = IF e2e \in 0..(Len(E2ERequests) - 1) /\ req' = E2ERequests[e2e + 1]
              THEN e2e + 1 ELSE -1
    /\ assigned' = assigned \cup {Prop(books'[i], "id") : i \in 1..Len(books')}
    /\ tombstones' = IF res'.status = 201 THEN {}
                     ELSE IF res'.status = 204 THEN tombstones \cup {req'.id}
                     ELSE tombstones
    /\ maxGone' = IF res'.status = 201 THEN FALSE
                  ELSE IF res'.status = 204 /\ IsLargest(books, req'.id) THEN TRUE
                  ELSE maxGone

-----------------------------------------------------------------------------
(* The state machine *)

Init ==
    /\ books = SeedBooks
    /\ req = Request("none", <<>>, EmptyObj)
    /\ res = Response(0, "none", <<>>, "")
    /\ prev = SeedBooks
    /\ e2e = 0
    /\ assigned = {Prop(SeedBooks[i], "id") : i \in 1..Len(SeedBooks)}
    /\ tombstones = {}
    /\ maxGone = FALSE

\* GET /books
List ==
    /\ req' = Request("list", <<>>, EmptyObj)
    /\ res' = Response(200, "array", books, "")
    /\ books' = books
    /\ Track

\* The response of GET /books/:id
GetResponse(bks, id) ==
    LET book == find(bks, id)
    IN  IF book # <<>> THEN Response(200, "object", book, "") ELSE NotFound

\* GET /books/:id
Get(id) ==
    /\ req' = Request("get", id, EmptyObj)
    /\ res' = GetResponse(books, id)
    /\ books' = books
    /\ Track

\* POST /books
Create(newBook) ==
    /\ \/ Invalid(newBook)
       \/ parseInt(generateId(books)).n <= MaxId
    /\ req' = Request("create", <<>>, newBook)
    /\ IF Invalid(newBook)
       THEN /\ res' = BadRequest
            /\ books' = books
       ELSE /\ books' = push(books, Stored(newBook, books))
            /\ res' = Response(201, "object", <<Stored(newBook, books)>>, "")
    /\ Track

\* PUT /books/:id
Update(id, updatedBookData) ==
    LET bookIndex == findIndex(books, id)
    IN  /\ req' = Request("update", id, updatedBookData)
        /\ IF bookIndex # 0
           THEN /\ books' = [books EXCEPT
                      ![bookIndex] = Merged(books[bookIndex], updatedBookData, id)]
                /\ res' = Response(200, "object", <<books'[bookIndex]>>, "")
           ELSE /\ res' = NotFound
                /\ books' = books
        /\ Track

\* DELETE /books/:id
Delete(id) ==
    LET initialLength == Len(books)
    IN  /\ req' = Request("delete", id, EmptyObj)
        /\ books' = filter(books, id)
        /\ IF Len(books') < initialLength
           THEN res' = Response(204, "empty", <<>>, "")
           ELSE res' = NotFound
        /\ Track

Next ==
    \/ List
    \/ \E id \in PathIds : Get(id)
    \/ \E newBook \in PostBodies : Create(newBook)
    \/ \E id \in PathIds, body \in PutBodies : Update(id, body)
    \/ \E id \in PathIds : Delete(id)

Spec == Init /\ [][Next]_vars

-----------------------------------------------------------------------------
(* Vocabulary of the properties *)

\* The JSON string that is the decimal numeral of n
Dec(n) == JStr(NatToString(n))

IdOf(b) == Prop(b, "id")

Ids(bks) == {IdOf(bks[i]) : i \in 1..Len(bks)}

\* Some book of bks has exactly the string id as its id
Stores(bks, id) == JStr(id) \in Ids(bks)

\* bks without its i-th element
Without(bks, i) == SubSeq(bks, 1, i - 1) \o SubSeq(bks, i + 1, Len(bks))

Required == {"title", "author", "publishedYear"}

\* Values that count as missing: the empty string, 0, null
Falsy == {JStr(<<>>), JNum(0), JNull}

Created(q, r) == q.op = "create" /\ r.status = 201

ById == {"get", "update", "delete"}

\* id is what the id policy gives for the collection bks: "1" when bks is empty,
\* else the numeral of the largest numeric id of bks plus one
FollowsPolicy(id, bks) ==
    IF bks = <<>> THEN id = Dec(1)
    ELSE \E m \in 1..MaxId :
             /\ Dec(m) \in Ids(bks)
             /\ \A n \in (m + 1)..(MaxId + 1) : Dec(n) \notin Ids(bks)
             /\ id = Dec(m + 1)

-----------------------------------------------------------------------------
(* Properties *)

\* C1: in every reachable state no two books of the collection have the same id.
C1_UniqueIds ==
    \A i, j \in 1..Len(books) : i # j => IdOf(books[i]) # IdOf(books[j])

\* An update whose body carries the id of another stored book has succeeded.
C1_Witness ==
    /\ req.op = "update" /\ res.status = 200
    /\ "id" \in DOMAIN req.body
    /\ req.body["id"] # JStr(req.id)
    /\ req.body["id"] \in Ids(prev)

\* C2: a successful create assigns the numeral of (largest stored numeric id) + 1,
\* or "1" on an empty collection, whatever id the body carries; and of two
\* successful creates in a row the second returns the numerically larger id.
C2_CreateStep ==
    Created(req', res') =>
        /\ res'.kind = "object" /\ Len(res'.body) = 1
        /\ FollowsPolicy(IdOf(res'.body[1]), books)
        /\ Len(books') = Len(books) + 1
        /\ IdOf(books'[Len(books')]) = IdOf(res'.body[1])
        /\ Created(req, res) =>
               \E a, b \in 1..(MaxId + 1) :
                   /\ a < b
                   /\ IdOf(res.body[1]) = Dec(a)
                   /\ IdOf(res'.body[1]) = Dec(b)

C2_CreateId == [][C2_CreateStep]_vars

\* A create whose body carried an id of its own has succeeded on a non-empty
\* collection and was given another id.
C2_Witness ==
    /\ Created(req, res)
    /\ prev # <<>>
    /\ "id" \in DOMAIN req.body
    /\ IdOf(res.body[1]) # req.body["id"]

\* C3: after a successful create, get-by-id with the returned id answers 200 with
\* the body's fields plus the assigned id; that record is the last of the list
\* and the records stored before are unchanged, in their order.
C3_CreateThenGet ==
    Created(req, res) =>
        /\ res.kind = "object" /\ Len(res.body) = 1
        /\ LET r == res.body[1]
           IN  /\ DOMAIN r = DOMAIN req.body \cup {"id"}
               /\ \A f \in DOMAIN req.body \ {"id"} : r[f] = req.body[f]
               /\ IdOf(r).k = "str"
               /\ GetResponse(books, IdOf(r).s) = Response(200, "object", <<r>>, "")
               /\ Len(books) = Len(prev) + 1
               /\ books[Len(books)] = r
               /\ SubSeq(books, 1, Len(prev)) = prev

\* A create has succeeded on a collection of three books.
C3_Witness ==
    /\ Created(req, res)
    /\ Len(prev) = 3
    /\ \A f \in Required : Truthy(Prop(req.body, f))

\* C4: a create whose body lacks title, author or publishedYear, or has it empty,
\* 0 or null, answers 400 with the message and leaves the collection as it was,
\* the id of the next create included.
C4_BadRequest ==
    (/\ req.op = "create"
     /\ \E f \in Required : f \notin DOMAIN req.body \/ req.body[f] \in Falsy)
    => /\ res.status = 400
       /\ res.kind = "message"
       /\ res.message = "Title, author, and publishedYear are required"
       /\ books = prev
       /\ generateId(books) = generateId(prev)

\* A create with an empty title has been answered.
C4_Witness ==
    /\ req.op = "create"
    /\ "title" \in DOMAIN req.body
    /\ req.body["title"] = JStr(<<>>)
    /\ res.status = 400

C6_DeleteStep ==
    /\ (req'.op = "delete" /\ Stores(books, req'.id)) =>
           /\ res'.status = 204 /\ res'.kind = "empty"
           /\ Len(books') = Len(books) - 1
           /\ \E i \in 1..Len(books) :
                  /\ IdOf(books[i]) = JStr(req'.id)
                  /\ books' = Without(books, i)
           /\ ~Stores(books', req'.id)
    /\ (req'.op \in ById /\ req'.id \in tombstones) =>
           /\ res'.status = 404
           /\ res'.message = "Book not found"

C6_Delete == [][C6_DeleteStep]_vars

\* A request for an id deleted earlier has been answered 404 while two ids
\* were deleted and none created since.
C6_Witness ==
    /\ req.op \in ById /\ res.status = 404
    /\ req.id \in tombstones
    /\ Cardinality(tombstones) = 2
    /\ Len(books) = 2

\* C7: get-by-id, update and delete of an id that no stored book has, by exact
\* string equality, answer 404 "Book not found" and leave the collection as it was.
C7_NotFound ==
    (req.op \in ById /\ ~Stores(prev, req.id)) =>
        /\ res.status = 404
        /\ res.kind = "message"
        /\ res.message = "Book not found"
        /\ books = prev

\* An update of "01" has been answered while a book "1" is stored.
C7_Witness ==
    /\ req.op = "update" /\ req.id = <<"0", "1">>
    /\ Stores(prev, <<"1">>)
    /\ res.status = 404

C9_ReuseStep ==
    Created(req', res') =>
        /\ maxGone => IdOf(res'.body[1]) \in assigned
        /\ books = <<>> => /\ IdOf(res'.body[1]) = Dec(1)
                           /\ Dec(1) \in assigned
        /\ (maxGone /\ Ids(books) = {Dec(1), Dec(2)}) => IdOf(res'.body[1]) = Dec(3)

C9_IdReuse == [][C9_ReuseStep]_vars

\* After the deletion of book "3", a create has returned "3" again.
C9_Witness ==
    /\ Created(req, res)
    /\ Ids(prev) = {Dec(1), Dec(2)}
    /\ IdOf(res.body[1]) = Dec(3)

\* C10: in every reachable state the id of every stored book is the canonical
\* decimal numeral of a positive integer, and generateId computes no NaN.
C10_NumericIds ==
    /\ \A i \in 1..Len(books) : \E n \in 1..MaxId : IdOf(books[i]) = Dec(n)
    /\ generateId(books).s # <<"N", "a", "N">>
    /\ \A i \in 1..Len(books) : parseInt(IdOf(books[i])).k = "num"

\* An update whose body carries the id "abc" has succeeded.
C10_Witness ==
    /\ req.op = "update" /\ res.status = 200
    /\ Prop(req.body, "id") = JStr(Abc)

====
